---- MODULE Spec2Model ----
(***************************************************************************)
(* The Origin messaging client (class Messaging) as a state machine.       *)
(*                                                                         *)
(* The engine is single-threaded JavaScript: every action below is one     *)
(* run-to-completion step (an API call up to its first network await, or   *)
(* the continuation that runs when a network response, a socket frame or   *)
(* a timer arrives).  Awaits of already-resolved promises (initRemote,     *)
(* createEncrypted, a registry-cache hit) are folded into the step that    *)
(* precedes them, since no network callback can run in between.            *)
(*                                                                         *)
(* The key server (registry, room logs, conversation lists, the live       *)
(* stream), the wallet signer and the peers are the environment.           *)
(***************************************************************************)
EXTENDS Integers, Sequences, FiniteSets, TLC

(***************************************************************************)
(* Bounds of the model.                                                    *)
(***************************************************************************)
MaxLog == 3        \* entries in one room's server log
MaxObjs == 3       \* conversation objects the engine allocates
MaxKeys == 2       \* fresh symmetric keys drawn
MaxSends == 2      \* sendConvMessage calls
MaxInits == 2      \* init(key) calls
MaxSocks == 2      \* WebSocket objects created
MaxLoads == 2      \* loadMyConvs calls

(***************************************************************************)
(* Values.                                                                 *)
(***************************************************************************)
\* JavaScript's undefined (a field never assigned) and NaN (undefined + 1).
Undefined == -1
NaN == -2
\* No wallet / no object / no key / no socket.
None == 0

\* Wallet addresses (checksummed); the messaging account derived from the
\* signature of wallet w is identified by w as well.
Wallets == {1, 2, 3}

\* WebSocket close codes: normal, no status (a close() without a code),
\* abnormal.
NORMAL_CLOSE == 1000
CloseCodes == {1000, 1005, 1006}

\* generateRoomId: the participants' checksummed addresses, sorted, joined.
generateRoomId(converser1, converser2) ==
    IF converser1 <= converser2 THEN <<converser1, converser2>>
                                ELSE <<converser2, converser1>>

\* Every room id the engine can compute (a wallet paired with itself too).
Rooms == {generateRoomId(a, b) : a, b \in Wallets}

\* The rooms of two distinct participants.
PairRooms == Rooms \ {<<w, w>> : w \in Wallets}

\* getRecipients: the participants of a room id.
getRecipients(roomId) == {roomId[1], roomId[2]}

\* The remote participant sendConvMessage resolves from a room id.
RemoteOf(roomId, me) == IF roomId[1] # me THEN roomId[1] ELSE roomId[2]

Range(s) == {s[i] : i \in 1..Len(s)}

(***************************************************************************)
(* JavaScript arithmetic on possibly-undefined numbers.                    *)
(***************************************************************************)
\* a + 1 : NaN when a is undefined or NaN.
JsInc(a) == IF a \in {Undefined, NaN} THEN NaN ELSE a + 1

\* a != b : always true when either side is NaN.
JsNeq(a, b) == IF a = NaN \/ b = NaN THEN TRUE ELSE a # b

(***************************************************************************)
(* Content envelopes.  A symmetric key is a number 1..MaxKeys; a wrapped   *)
(* key (ECIES) is the pair of the messaging identity it was wrapped for    *)
(* and the key; a ciphertext is the pair of the key it was encrypted       *)
(* under and the plaintext body.                                           *)
(***************************************************************************)
Bodies == {"hi", "notjson", "badschema"}

KeyEntry(addr, pub, key) ==
    [address |-> addr, maddress |-> pub, ekey |-> [pub |-> pub, key |-> key]]

KeysContent(sender, entries) ==
    [type |-> "keys", address |-> sender, keys |-> entries,
     emsg |-> [k |-> None, body |-> "hi"]]

MsgContent(sender, key, body) ==
    [type |-> "msg", address |-> sender, keys |-> <<>>,
     emsg |-> [k |-> key, body |-> body]]

\* A freshly constructed conversation object of getRoom: no index fields.
NewConvObj ==
    [keys |-> <<>>, messages |-> <<>>,
     lastConversationIndex |-> Undefined, messageCount |-> Undefined]

\* The throw-away object startConv uses for a room this.convs does not hold.
TempConvObj ==
    [keys |-> <<>>, messages |-> <<>>,
     lastConversationIndex |-> Undefined, messageCount |-> 0]

(***************************************************************************)
(* Crypto primitives and the message codec, as the source computes them.   *)
(***************************************************************************)
COULD_NOT_DECRYPT == "Could not decrypt"
INVALID_MESSAGE_OBJECT == "Invalid message object"

\* An unwrap that succeeds with any private key (what ecDecrypt must not
\* be).
ecDecryptAnyKey(buffer, acct) ==
    IF acct = None THEN None ELSE buffer.key

\* ecDecrypt: undefined without a messaging account; the ECIES unwrap
\* succeeds only with the private key the blob was wrapped for, and throws
\* otherwise (its one caller, processKeys, catches and goes on with no key).
ecDecrypt(buffer, acct) ==
    IF acct = None THEN None
    ELSE IF buffer.pub = acct THEN buffer.key ELSE None

\* A decryption that yields the plaintext under any key (what decryptEmsg
\* must not be).
decryptEmsgAnyKey(emsg, key) == emsg.body

\* decryptEmsg: the plaintext when the key is the one the message was
\* encrypted under (the 6-character SHA-1 tag matches), undefined otherwise.
decryptEmsg(emsg, key) == IF emsg.k = key THEN emsg.body ELSE "undefined"

\* validateMessage after JSON.parse: the MESSAGE_FORMAT schema.
ValidBody(body) == body \notin {"notjson", "badschema"}

\* decryptMessage: the first key that decrypts decides the outcome.
RECURSIVE decryptMessage(_, _)
decryptMessage(content, keys) ==
    IF keys = <<>> THEN [error |-> COULD_NOT_DECRYPT, content |-> "undefined"]
    ELSE LET buffer == decryptEmsg(content.emsg, Head(keys)) IN
         IF buffer # "undefined"
         THEN IF ValidBody(buffer)
              THEN [error |-> "", content |-> buffer]
              ELSE [error |-> INVALID_MESSAGE_OBJECT, content |-> "undefined"]
         ELSE decryptMessage(content, Tail(keys))

\* processKeys: every entry addressed to this.account_key is unwrapped and
\* its key pushed unless convObj.keys already includes it.
RECURSIVE processKeys(_, _, _, _)
processKeys(entries, keys, acctKey, acct) ==
    IF entries = <<>> THEN keys
    ELSE LET v == Head(entries)
             key == IF v.address = acctKey THEN ecDecrypt(v.ekey, acct) ELSE None
             keys1 == IF key # None /\ key \notin Range(keys)
                      THEN Append(keys, key) ELSE keys
         IN processKeys(Tail(entries), keys1, acctKey, acct)

\* A hash that leaves the index out (what getMessageId must not be).
getMessageIdOfRoom(roomId, conversationIndex) == <<roomId, 0>>

\* getMessageId: roomId + '.' + conversationIndex.
getMessageId(roomId, conversationIndex) == <<roomId, conversationIndex>>

\* A message built with the index after the entry's (what toMessage must
\* not be).
toMessageNextIndex(msg, roomId, conversationIndex, address) ==
    [msg |-> msg, room_id |-> roomId, index |-> conversationIndex + 1,
     address |-> address, hash |-> <<roomId, conversationIndex + 1>>]

toMessage(msg, roomId, conversationIndex, address) ==
    [msg |-> msg, room_id |-> roomId, index |-> conversationIndex,
     address |-> address, hash |-> getMessageId(roomId, conversationIndex)]

\* processContent with the two callbacks getRoom and onMessageUpdate pass
\* (the same in both): a decrypted message is pushed on convObj.messages and
\* emitted as 'msg'; an undecryptable one is emitted as 'emsg'.  The result
\* is the conversation object after the call and the events emitted.
processContent(content, convObj, roomId, conversationIndex, acctKey, acct) ==
    IF content.type = "keys"
    THEN [obj |-> [convObj EXCEPT
                     !.keys = processKeys(content.keys, convObj.keys, acctKey, acct)],
          ev |-> <<>>]
    ELSE IF content.type = "msg"
    THEN LET decrypted == decryptMessage(content, convObj.keys) IN
         IF decrypted.error = COULD_NOT_DECRYPT
         THEN [obj |-> convObj,
               ev |-> <<[type |-> "emsg",
                         message |-> toMessage(content.emsg, roomId,
                                               conversationIndex, content.address)]>>]
         ELSE IF decrypted.error = INVALID_MESSAGE_OBJECT
         THEN [obj |-> convObj, ev |-> <<>>]
         ELSE LET message == toMessage([k |-> None, body |-> decrypted.content],
                                       roomId, conversationIndex, content.address)
              IN [obj |-> [convObj EXCEPT !.messages = Append(@, message)],
                  ev |-> <<[type |-> "msg", message |-> message]>>]
    ELSE [obj |-> convObj, ev |-> <<>>]

\* One iteration of getRoom's forEach: the entry's content is processed
\* and the two index fields are set from the entry.
IngestEntry(content, convObj, roomId, conversationIndex, acctKey, acct) ==
    LET r == processContent(content, convObj, roomId, conversationIndex,
                            acctKey, acct)
    IN [obj |-> [r.obj EXCEPT !.lastConversationIndex = conversationIndex,
                              !.messageCount = conversationIndex + 1],
        ev |-> r.ev]

\* getRoom's messages.forEach over the fetched entries first..last of the
\* server log (conversationIndex = position - 1).
RECURSIVE IngestAll(_, _, _, _, _, _, _)
IngestAll(entries, first, last, convObj, roomId, acctKey, acct) ==
    IF first > last THEN [obj |-> convObj, ev |-> <<>>]
    ELSE LET one == IngestEntry(entries[first], convObj, roomId, first - 1,
                                acctKey, acct)
             rest == IngestAll(entries, first + 1, last, one.obj, roomId,
                               acctKey, acct)
         IN [obj |-> rest.obj, ev |-> one.ev \o rest.ev]

(***************************************************************************)
(* State.                                                                  *)
(***************************************************************************)
VARIABLES
    \* the engine (fields of the Messaging instance)
    account_key,      \* this.account_key: the wallet address, None before init
    account,          \* this.account: the wallet whose messaging key is loaded
    convsEnabled,     \* this.convsEnabled
    pub_sig,          \* this.pub_sig: the wallet that signed, None when unset
    pub_msg,          \* this.pub_msg: the messaging account announced
    convs,            \* this.convs: room id -> conversation object (None: absent)
    objs,             \* the conversation objects, by identity
    ws,               \* this.ws: the current WebSocket object
    sending,          \* this._sending_message
    registryCache,    \* this._registryCache: address -> cached entry
    \* secret storage (cookie / session storage)
    storeMK,          \* MK_:<wallet>  -> the wallet whose signature gave the key
    storePub,         \* PMS_/KEY_:<wallet> -> [sig, msg]
    \* the key server
    registry,         \* wallet -> published entry
    log,              \* room id -> the room's append-only log
    feed,             \* the appended entries <<room, index>>, in append order
    socks,            \* the WebSocket objects: state, subscribed wallet, cursor
    \* operations in flight (awaiting the network, the wallet or a timer)
    inits,            \* initMessaging calls
    loads,            \* loadMyConvs calls awaiting fetchConvs
    gets,             \* getRoom calls awaiting GET /messages/<roomId>
    sends,            \* sendConvMessage calls
    timers,           \* sockets whose 30 s reconnect timer is pending
    \* the module's limiter (Bottleneck, maxConcurrent 25), as far as the
    \* model follows it: the numbers of its jobs running, waiting and ended
    limiter,
    \* call counters (they bound the run)
    nInits, nLoads, nSends, nKeys,
    \* observations
    events,           \* the 'msg' and 'emsg' events emitted, in order
    lifecycle,        \* the other events emitted: <<name, account_key>>
    posts,            \* the POSTs issued to /messages, with what held then
    lastLive          \* the last live entry handled by onMessageUpdate

engineVars == <<account_key, account, convsEnabled, pub_sig, pub_msg, convs,
                objs, ws, sending, registryCache>>
storeVars == <<storeMK, storePub>>
serverVars == <<registry, log, feed, socks>>
taskVars == <<inits, loads, gets, sends, timers>>
countVars == <<nInits, nLoads, nSends, nKeys>>
obsVars == <<events, lifecycle, posts, lastLive>>
vars == <<engineVars, storeVars, serverVars, taskVars, limiter, countVars,
          obsVars>>

ObjIds == 1..MaxObjs
SockIds == 1..MaxSocks

NoEntry == [address |-> None, sig |-> None, msg |-> None]
NoPub == [sig |-> None, msg |-> None]
FreeSock == [state |-> "free", acct |-> None, cursor |-> 0]
NoLive == [room |-> <<None, None>>, index |-> Undefined, known |-> FALSE,
           last |-> Undefined, reload |-> FALSE, emitted |-> FALSE]

\* The registry entry wallet w publishes for its own messaging account.
OwnEntry(w) == [address |-> w, sig |-> w, msg |-> w]

(***************************************************************************)
(* Init: the engine as the constructor leaves it; a key server on which    *)
(* every wallet is enrolled and no room has a log yet; a secret store      *)
(* that holds the messaging key and publication of wallets 1 and 2 from    *)
(* an earlier session.  InitWith(reg) is that state with the registry     *)
(* reg on the key server.                                                  *)
(***************************************************************************)
InitWith(reg) ==
    /\ account_key = None
    /\ account = None
    /\ convsEnabled = FALSE
    /\ pub_sig = None
    /\ pub_msg = None
    /\ convs = [r \in Rooms |-> None]
    /\ objs = [i \in ObjIds |-> NewConvObj]
    /\ ws = None
    /\ sending = FALSE
    /\ registryCache = [w \in Wallets |-> NoEntry]
    /\ storeMK = [w \in Wallets |-> IF w = 3 THEN None ELSE w]
    /\ storePub = [w \in Wallets |-> IF w = 3 THEN NoPub ELSE [sig |-> w, msg |-> w]]
    /\ registry = reg
    /\ log = [r \in Rooms |-> <<>>]
    /\ feed = <<>>
    /\ socks = [i \in SockIds |-> FreeSock]
    /\ inits = {}
    /\ loads = {}
    /\ gets = {}
    /\ sends = {}
    /\ timers = {}
    /\ limiter = [running |-> 0, queued |-> 0, ended |-> 0]
    /\ nInits = 0
    /\ nLoads = 0
    /\ nSends = 0
    /\ nKeys = 0
    /\ events = <<>>
    /\ lifecycle = <<>>
    /\ posts = {}
    /\ lastLive = NoLive

Init == InitWith([w \in Wallets |-> OwnEntry(w)])

(***************************************************************************)
(* Object identity.  A conversation object lives as long as this.convs or  *)
(* an operation in flight refers to it; a WebSocket object as long as it   *)
(* is open, is this.ws, or has a pending timer.  Slots of dead objects are *)
(* reset and reused, which no operation of the engine can observe.         *)
(***************************************************************************)
LiveObjs(cv, gs, ss) ==
    ({cv[r] : r \in Rooms} \cup {g.obj : g \in gs} \cup {t.obj : t \in ss}) \ {None}

CanonObjs(os, cv, gs, ss) ==
    [i \in ObjIds |-> IF i \in LiveObjs(cv, gs, ss) THEN os[i] ELSE NewConvObj]

FreeObjs(cv, gs, ss) == ObjIds \ LiveObjs(cv, gs, ss)

MinOf(S) == CHOOSE x \in S : \A y \in S : x <= y

LiveSocks(sk, w, tm) ==
    {i \in SockIds : sk[i].state \in {"connecting", "open"}} \cup ({w} \ {None}) \cup tm

CanonSocks(sk, w, tm) ==
    [i \in SockIds |-> IF i \in LiveSocks(sk, w, tm) THEN sk[i] ELSE FreeSock]

FreeSocks(sk, w, tm) == SockIds \ LiveSocks(sk, w, tm)

\* The smallest id no task of the set carries.
NewId(S) == MinOf({i \in 1..(Cardinality(S) + 1) : \A t \in S : t.id # i})

(***************************************************************************)
(* getRoom(roomId), up to its await: a fresh conversation object replaces  *)
(* whatever this.convs held for the room, and the GET is issued.           *)
(* st = [objs, convs, gets, ok]; ok turns FALSE when the model has no      *)
(* object slot left.  The task notes the wallet address it was launched    *)
(* under (acct), which the engine itself does not keep.                    *)
(***************************************************************************)
getRoomCall(st, roomId, ss) ==
    LET cv1 == [st.convs EXCEPT ![roomId] = None]
        free == FreeObjs(cv1, st.gets, ss)
    IN IF ~st.ok \/ free = {} THEN [st EXCEPT !.ok = FALSE]
       ELSE LET id == MinOf(free) IN
            [objs |-> [st.objs EXCEPT ![id] = NewConvObj],
             convs |-> [st.convs EXCEPT ![roomId] = id],
             gets |-> st.gets \cup {[obj |-> id, room |-> roomId, n |-> Undefined,
                                     acct |-> account_key]},
             ok |-> TRUE]

\* loadMyConvs' loop: getRoom(conv.id) for every conversation fetched.
RECURSIVE getRoomCalls(_, _, _)
getRoomCalls(st, roomIds, ss) ==
    IF roomIds = <<>> THEN st
    ELSE getRoomCalls(getRoomCall(st, Head(roomIds), ss), Tail(roomIds), ss)

HeapState == [objs |-> objs, convs |-> convs, gets |-> gets, ok |-> TRUE]

\* convObj.conversationIndex, the field onMessageUpdate reads: no code
\* assigns it (getRoom and onMessageUpdate assign lastConversationIndex).
conversationIndexOf(convObj) == Undefined

\* The branch of onMessageUpdate that processes the entry in place.
ProcessInPlace(conversationIndex, convObj) ==
    JsNeq(conversationIndex, JsInc(conversationIndexOf(convObj)))

(***************************************************************************)
(* The key server's side of a room log and of the live stream.             *)
(***************************************************************************)
RoomOrder == <<<<1, 2>>, <<1, 3>>, <<2, 3>>, <<1, 1>>, <<2, 2>>, <<3, 3>>>>

\* GET /conversations/<wallet>: the rooms of the wallet that have a log.
Conversations(w) ==
    SelectSeq(RoomOrder, LAMBDA r : w \in getRecipients(r) /\ log[r] # <<>>)

\* The keys some 'keys' envelope of the room's log has announced.
AnnouncedKeys(entries) ==
    {entries[i].keys[j].ekey.key :
        i \in {x \in 1..Len(entries) : entries[x].type = "keys"}, j \in {1, 2}}

\* The feed positions after the socket's cursor that belong to its wallet.
Pending(sock) ==
    {p \in (sock.cursor + 1)..Len(feed) : sock.acct \in getRecipients(feed[p][1])}

\* A peer appends an entry to a room's log; the server assigns the next
\* index and pushes the entry on the live stream.
PeerPost(roomId, content) ==
    /\ Len(log[roomId]) < MaxLog
    /\ log' = [log EXCEPT ![roomId] = Append(@, content)]
    /\ feed' = Append(feed, <<roomId, Len(log[roomId])>>)
    /\ nKeys' = IF content.type = "keys" THEN nKeys + 1 ELSE nKeys
    /\ UNCHANGED <<engineVars, storeVars, registry, socks, taskVars,
                   nInits, nLoads, nSends, obsVars>>
    /\ UNCHANGED limiter

\* The envelopes a peer may post: a fresh key wrapped for both participants
\* as the registry has them, or a message under an announced key.
PeerContents(roomId, sender) ==
    (IF nKeys < MaxKeys
     THEN {KeysContent(sender,
             <<KeyEntry(roomId[1], registry[roomId[1]].address, nKeys + 1),
               KeyEntry(roomId[2], registry[roomId[2]].address, nKeys + 1)>>)}
     ELSE {})
    \cup {MsgContent(sender, k, "hi") : k \in AnnouncedKeys(log[roomId])}

\* The server accepts a WebSocket connection: the subscription starts at
\* the current end of the feed.
WsOpen(i) ==
    /\ socks[i].state = "connecting"
    /\ socks' = [socks EXCEPT ![i] = [@ EXCEPT !.state = "open", !.cursor = Len(feed)]]
    /\ UNCHANGED <<engineVars, storeVars, registry, log, feed, taskVars,
                   countVars, obsVars>>
    /\ UNCHANGED limiter

\* ws.onclose (listenForUpdates): the connection ends with a close code; any
\* code but 1000 arms the 30 s timer.
WsClose(i, code) ==
    /\ socks[i].state \in {"connecting", "open"}
    /\ LET tm == IF code # NORMAL_CLOSE THEN timers \cup {i} ELSE timers
           sk == [socks EXCEPT ![i] = [@ EXCEPT !.state = "closed"]]
       IN /\ timers' = tm
          /\ socks' = CanonSocks(sk, ws, tm)
    /\ UNCHANGED <<engineVars, storeVars, registry, log, feed, inits, loads,
                   gets, sends, countVars, obsVars>>
    /\ UNCHANGED limiter

(***************************************************************************)
(* ws.onmessage -> onMessageUpdate(entry)                                  *)
(***************************************************************************)
WsDeliver(i) ==
    /\ socks[i].state = "open"
    /\ Pending(socks[i]) # {}
    /\ LET p == MinOf(Pending(socks[i]))
           roomId == feed[p][1]
           conversationIndex == feed[p][2]
           content == log[roomId][conversationIndex + 1]
           known == convs[roomId] # None
           convObj == objs[convs[roomId]]
           inPlace == known /\ ProcessInPlace(conversationIndex, convObj)
           r == IngestEntry(content, convObj, roomId, conversationIndex,
                            account_key, account)
           st == getRoomCall(HeapState, roomId, sends)
       IN /\ socks' = [socks EXCEPT ![i] = [@ EXCEPT !.cursor = p]]
          /\ IF inPlace
             THEN /\ objs' = [objs EXCEPT ![convs[roomId]] = r.obj]
                  /\ events' = events \o r.ev
                  /\ UNCHANGED <<convs, gets>>
             ELSE /\ st.ok
                  /\ objs' = CanonObjs(st.objs, st.convs, st.gets, sends)
                  /\ convs' = st.convs
                  /\ gets' = st.gets
                  /\ UNCHANGED events
          /\ lastLive' = [room |-> roomId, index |-> conversationIndex,
                          known |-> known,
                          last |-> IF known THEN convObj.lastConversationIndex
                                            ELSE Undefined,
                          reload |-> ~inPlace,
                          emitted |-> inPlace /\ \E k \in 1..Len(r.ev) :
                                                    r.ev[k].type = "msg"]
    /\ UNCHANGED <<account_key, account, convsEnabled, pub_sig, pub_msg, ws,
                   sending, registryCache, storeVars, registry, log, feed,
                   inits, loads, sends, timers, countVars, lifecycle, posts>>
    /\ UNCHANGED limiter

(***************************************************************************)
(* getRoom: the server answers the GET with the log as it is then; the     *)
(* engine later runs the forEach over the answer.                          *)
(***************************************************************************)
GetRoomServe(g) ==
    /\ g \in gets
    /\ g.n = Undefined
    /\ gets' = (gets \ {g}) \cup {[g EXCEPT !.n = Len(log[g.room])]}
    /\ UNCHANGED <<engineVars, storeVars, serverVars, inits, loads, sends,
                   timers, countVars, obsVars>>
    /\ UNCHANGED limiter

GetRoomDone(g) ==
    /\ g \in gets
    /\ g.n # Undefined
    /\ LET r == IngestAll(log[g.room], 1, g.n, objs[g.obj], g.room,
                          account_key, account)
           gs == gets \ {g}
       IN /\ gets' = gs
          /\ objs' = CanonObjs([objs EXCEPT ![g.obj] = r.obj], convs, gs, sends)
          /\ events' = events \o r.ev
    /\ UNCHANGED <<account_key, account, convsEnabled, pub_sig, pub_msg, convs,
                   ws, sending, registryCache, storeVars, serverVars, inits,
                   loads, sends, timers, countVars, lifecycle, posts, lastLive>>
    /\ UNCHANGED limiter

\* The GET fails (fetch rejects, or the body is no JSON array): getRoom
\* rejects and the object it installed stays as it is.
GetRoomFail(g) ==
    /\ g \in gets
    /\ gets' = gets \ {g}
    /\ objs' = CanonObjs(objs, convs, gets \ {g}, sends)
    /\ UNCHANGED <<account_key, account, convsEnabled, pub_sig, pub_msg, convs,
                   ws, sending, registryCache, storeVars, serverVars, inits,
                   loads, sends, timers, countVars, obsVars>>
    /\ UNCHANGED limiter

(***************************************************************************)
(* loadMyConvs and listenForUpdates                                        *)
(***************************************************************************)
\* loadMyConvs(), up to its await: GET /conversations/<this.account_key>.
\* why is "init" (called by initMessaging) or "reconnect" (by the timer).
loadMyConvsCall(ls, why) ==
    ls \cup {[id |-> NewId(ls), acct |-> account_key, served |-> FALSE,
              list |-> <<>>, why |-> why]}

FetchConvsServe(t) ==
    /\ t \in loads
    /\ ~t.served
    /\ loads' = (loads \ {t}) \cup
                {[t EXCEPT !.served = TRUE, !.list = Conversations(t.acct)]}
    /\ UNCHANGED <<engineVars, storeVars, serverVars, inits, gets, sends,
                   timers, countVars, obsVars>>
    /\ UNCHANGED limiter

\* The fetch fails (network error, or a body that is no JSON array):
\* loadMyConvs rejects before its loop and before listenForUpdates.
FetchConvsFail(t) ==
    /\ t \in loads
    /\ loads' = loads \ {t}
    /\ UNCHANGED <<engineVars, storeVars, serverVars, inits, gets, sends,
                   timers, countVars, obsVars>>
    /\ UNCHANGED limiter

\* The rest of loadMyConvs: getRoom for every conversation listed, then
\* listenForUpdates: close this.ws if there is one (its onclose handler
\* runs with the code of a client-side close), open a WebSocket for
\* this.account_key and make it this.ws.
LoadMyConvsDone(t, code) ==
    /\ t \in loads
    /\ t.served
    /\ LET st == getRoomCalls(HeapState, t.list, sends)
           wasOpen == ws # None /\ socks[ws].state \in {"connecting", "open"}
           tm == IF wasOpen /\ code # NORMAL_CLOSE THEN timers \cup {ws} ELSE timers
           sk1 == IF wasOpen THEN [socks EXCEPT ![ws] = [@ EXCEPT !.state = "closed"]]
                             ELSE socks
           free == FreeSocks(sk1, None, tm)
           new == MinOf(free)
       IN /\ st.ok
          /\ free # {}
          /\ objs' = CanonObjs(st.objs, st.convs, st.gets, sends)
          /\ convs' = st.convs
          /\ gets' = st.gets
          /\ timers' = tm
          /\ ws' = new
          /\ socks' = CanonSocks([sk1 EXCEPT ![new] =
                                    [state |-> "connecting", acct |-> account_key,
                                     cursor |-> 0]], new, tm)
    /\ loads' = loads \ {t}
    /\ UNCHANGED <<account_key, account, convsEnabled, pub_sig, pub_msg,
                   sending, registryCache, storeVars, registry, log, feed,
                   inits, sends, countVars, obsVars>>
    /\ UNCHANGED limiter

\* The 30 s timer of ws.onclose fires: loadMyConvs() if the socket is still
\* this.ws.
TimerFire(i) ==
    /\ i \in timers
    /\ timers' = timers \ {i}
    /\ socks' = CanonSocks(socks, ws, timers \ {i})
    /\ IF ws = i
       THEN /\ nLoads < MaxLoads
            /\ nLoads' = nLoads + 1
            /\ loads' = loadMyConvsCall(loads, "reconnect")
       ELSE UNCHANGED <<nLoads, loads>>
    /\ UNCHANGED <<engineVars, storeVars, registry, log, feed, inits, gets,
                   sends, nInits, nSends, nKeys, obsVars>>
    /\ UNCHANGED limiter

(***************************************************************************)
(* init(key) and the identity ceremony it may start                        *)
(***************************************************************************)
\* The end of initMessaging: emit 'ready', call loadMyConvs().
ReadyAndLoad ==
    /\ nLoads < MaxLoads
    /\ nLoads' = nLoads + 1
    /\ lifecycle' = Append(lifecycle, <<"ready", account_key>>)
    /\ loads' = loadMyConvsCall(loads, "init")

\* init(key): reset, then (initRemote resolves at once) read the stored
\* publication; with a stored messaging key initKeys -> setAccount ->
\* initMessaging runs up to the GET of getGlobalKey.  The stored phrase is
\* the fixed one whenever a key is stored, so initKeys never prompts here.
\* (The read-status bootstrap at the end of init is the status store's.)
InitCall(key) ==
    /\ nInits < MaxInits
    /\ nInits' = nInits + 1
    /\ convs' = [r \in Rooms |-> None]
    /\ objs' = CanonObjs(objs, [r \in Rooms |-> None], gets, sends)
    /\ convsEnabled' = FALSE
    /\ account_key' = key
    /\ pub_sig' = storePub[key].sig
    /\ pub_msg' = storePub[key].msg
    /\ lifecycle' = lifecycle \o <<<<"new", key>>, <<"initRemote", key>>,
                                   <<"initialized", key>>>>
    /\ IF storeMK[key] # None
       THEN /\ account' = storeMK[key]
            /\ inits' = inits \cup {[id |-> NewId(inits), pc |-> "getGlobalKey",
                                     key |-> key, body |-> NoEntry]}
       ELSE /\ account' = None
            /\ UNCHANGED inits
    /\ UNCHANGED <<ws, sending, registryCache, storeVars, serverVars, loads,
                   gets, sends, timers, nLoads, nSends, nKeys, events, posts,
                   lastLive>>
    /\ UNCHANGED limiter

\* setRemoteMessagingSig, up to its await: the POST of the registry entry.
RegistryPost(is, pc) ==
    is \cup {[id |-> NewId(is), pc |-> pc, key |-> account_key,
              body |-> [address |-> account, sig |-> pub_sig, msg |-> pub_msg]]}

\* initMessaging after getRemoteMessagingSig: got is the body of the GET
\* (NoEntry when the fetch failed or the server has no entry).
InitGlobalKey(t, got) ==
    /\ t \in inits
    /\ t.pc = "getGlobalKey"
    /\ LET is == inits \ {t}
           entry == IF got.address # None /\ got.address = account
                    THEN got ELSE NoEntry
           accountMatch == entry # NoEntry
       IN IF account = None
          THEN \* this.account.address throws: initMessaging rejects
               /\ inits' = is
               /\ UNCHANGED <<pub_sig, pub_msg, loads, nLoads, lifecycle>>
          ELSE IF pub_sig = None \/ pub_msg = None
          THEN IF accountMatch /\ entry.sig # None /\ entry.msg # None
               THEN /\ pub_sig' = entry.sig
                    /\ pub_msg' = entry.msg
                    /\ inits' = is
                    /\ ReadyAndLoad
               ELSE \* promptForSignature, up to the wallet's signature
                    \* (body: the publication the engine held at the call)
                    /\ pub_msg' = account
                    /\ inits' = is \cup {[id |-> t.id, pc |-> "sign",
                                          key |-> account_key,
                                          body |-> [address |-> account,
                                                    sig |-> pub_sig,
                                                    msg |-> pub_msg]]}
                    /\ UNCHANGED <<pub_sig, loads, nLoads, lifecycle>>
          ELSE IF ~accountMatch
          THEN /\ inits' = RegistryPost(is, "postRegistry")
               /\ UNCHANGED <<pub_sig, pub_msg, loads, nLoads, lifecycle>>
          ELSE /\ inits' = is
               /\ UNCHANGED <<pub_sig, pub_msg>>
               /\ ReadyAndLoad
    /\ UNCHANGED <<account_key, account, convsEnabled, convs, objs, ws, sending,
                   registryCache, storeVars, serverVars, gets, sends, timers,
                   nInits, nSends, nKeys, events, posts, lastLive>>
    /\ UNCHANGED limiter

\* promptForSignature after the wallet answered.  A refusal throws; a
\* signature is stored, setRemoteMessagingSig is called without await (it
\* rejects unnoticed when there is no messaging account), and initMessaging
\* goes on to 'ready'.
InitSign(t, signed) ==
    /\ t \in inits
    /\ t.pc = "sign"
    /\ IF ~signed
       THEN /\ inits' = inits \ {t}
            /\ UNCHANGED <<pub_sig, storePub, loads, nLoads, lifecycle>>
       ELSE /\ pub_sig' = t.key
            /\ storePub' = [storePub EXCEPT ![account_key] =
                                [sig |-> t.key, msg |-> pub_msg]]
            /\ inits' = IF account = None THEN inits \ {t}
                        ELSE (inits \ {t}) \cup
                             {[id |-> t.id, pc |-> "postDetached",
                               key |-> account_key,
                               body |-> [address |-> account, sig |-> t.key,
                                         msg |-> pub_msg]]}
            /\ ReadyAndLoad
    /\ UNCHANGED <<account_key, account, convsEnabled, pub_msg, convs, objs, ws,
                   sending, registryCache, storeMK, serverVars, gets, sends,
                   timers, nInits, nSends, nKeys, events, posts, lastLive>>
    /\ UNCHANGED limiter

\* The registry POST ends: status is 200 (the server stored the entry), 500
\* (any other answer: logged) or 0 (the fetch threw: no answer at all).  The
\* awaited call (initMessaging) goes on to 'ready' unless the fetch threw;
\* the detached one (promptForSignature) changes nothing.
InitPosted(t, status) ==
    /\ t \in inits
    /\ t.pc \in {"postRegistry", "postDetached"}
    /\ registry' = IF status = 200 THEN [registry EXCEPT ![t.key] = t.body]
                                   ELSE registry
    /\ inits' = inits \ {t}
    /\ IF t.pc = "postRegistry" /\ status # 0
       THEN ReadyAndLoad
       ELSE UNCHANGED <<loads, nLoads, lifecycle>>
    /\ UNCHANGED <<engineVars, storeVars, log, feed, socks, gets, sends, timers,
                   nInits, nSends, nKeys, events, posts, lastLive>>
    /\ UNCHANGED limiter

\* startConversing(): without a messaging account or a stored publication
\* signature, initKeys: with a stored messaging key setAccount and
\* initMessaging up to the GET of getGlobalKey, without one promptToEnable
\* up to the wallet's signature of the fixed phrase; otherwise
\* this.convsEnabled = true.
StartConversing ==
    /\ account_key # None
    /\ nInits < MaxInits
    /\ nInits' = nInits + 1
    /\ IF account = None \/ storePub[account_key].sig = None
       THEN IF storeMK[account_key] # None
            THEN /\ account' = storeMK[account_key]
                 /\ inits' = inits \cup {[id |-> NewId(inits), pc |-> "getGlobalKey",
                                          key |-> account_key, body |-> NoEntry]}
                 /\ UNCHANGED convsEnabled
            ELSE /\ inits' = inits \cup {[id |-> NewId(inits), pc |-> "enable",
                                          key |-> account_key, body |-> NoEntry]}
                 /\ UNCHANGED <<account, convsEnabled>>
       ELSE /\ convsEnabled' = TRUE
            /\ UNCHANGED <<account, inits>>
    /\ UNCHANGED <<account_key, pub_sig, pub_msg, convs, objs, ws, sending,
                   registryCache, storeVars, serverVars, loads, gets, sends,
                   timers, nLoads, nSends, nKeys, obsVars>>
    /\ UNCHANGED limiter

\* promptToEnable after the wallet answered.  A refusal throws (through
\* initKeys to the caller of startConversing); a signature is announced
\* with 'signedSig' and the 500 ms sleep begins.
EnableSign(t, signed) ==
    /\ t \in inits
    /\ t.pc = "enable"
    /\ IF ~signed
       THEN /\ inits' = inits \ {t}
            /\ UNCHANGED lifecycle
       ELSE /\ inits' = (inits \ {t}) \cup {[t EXCEPT !.pc = "sleep"]}
            /\ lifecycle' = Append(lifecycle, <<"signedSig", t.key>>)
    /\ UNCHANGED <<engineVars, storeVars, serverVars, loads, gets, sends,
                   timers, countVars, events, posts, lastLive>>
    /\ UNCHANGED limiter

\* promptToEnable after the sleep: setAccount with the key cut from the
\* signature of the wallet that signed (t.key), stored under the current
\* this.account_key, then initMessaging up to the GET of getGlobalKey.
EnableSet(t) ==
    /\ t \in inits
    /\ t.pc = "sleep"
    /\ account' = t.key
    /\ storeMK' = [storeMK EXCEPT ![account_key] = t.key]
    /\ inits' = (inits \ {t}) \cup {[t EXCEPT !.pc = "getGlobalKey",
                                               !.key = account_key]}
    /\ UNCHANGED <<account_key, convsEnabled, pub_sig, pub_msg, convs, objs,
                   ws, sending, registryCache, storePub, serverVars, loads,
                   gets, sends, timers, countVars, obsVars>>
    /\ UNCHANGED limiter

(***************************************************************************)
(* sendConvMessage / startConv / createEncrypted / addRoomMsg              *)
(***************************************************************************)
getSharedKeys(roomId) ==
    IF convs[roomId] # None THEN objs[convs[roomId]].keys ELSE <<>>

NoContent == MsgContent(None, None, "hi")

\* What a POST to /messages is issued with, and what held when it was.
PostRecord(t, type, roomId, index, key, convObj, os) ==
    [send |-> t.id, type |-> type, room |-> roomId, index |-> index,
     key |-> key, objKeys |-> convObj.keys, objCount |-> convObj.messageCount,
     published |-> AnnouncedKeys(log[roomId]) # {},
     shared |-> IF convs[roomId] # None THEN os[convs[roomId]].keys ELSE <<>>,
     result |-> FALSE,
     others |-> Cardinality(sends \ {t})]

\* A message POST issued at the index after convObj.messageCount (what
\* sendConvMessage must not do).
EncryptAndPostPastCount(t, cx) ==
    LET convObj == cx.objs[t.obj]
        done == [cx EXCEPT !.alive = FALSE]
    IN IF ~ValidBody(t.body) THEN done
       ELSE IF convObj.keys = <<>> THEN done
       ELSE IF account = None THEN [done EXCEPT !.sending = TRUE]
       ELSE LET content == MsgContent(account_key, convObj.keys[1], t.body)
                t1 == [t EXCEPT !.pc = "msgPost", !.room = t.roomId,
                                !.idx = JsInc(convObj.messageCount),
                                !.content = content]
            IN [cx EXCEPT !.alive = TRUE, !.t = t1, !.sending = TRUE,
                          !.posts = @ \cup {PostRecord(t, "msg", t.roomId,
                                                JsInc(convObj.messageCount),
                                                convObj.keys[1], convObj,
                                                cx.objs)}]

\* sendConvMessage after startConv returned convObj (the object t.obj of
\* os): createEncrypted, then this._sending_message = true and the message
\* POST of addRoomMsg.  cx = [objs, nKeys, posts, sending] is the state so
\* far; the result adds the task as it goes on (alive) or ends.
\*   - an invalid message object: createEncrypted returns nothing, return;
\*   - no key in convObj: AES.encrypt throws on the undefined key;
\*   - no messaging account: this.account.sign throws in addRoomMsg, after
\*     the flag was set.
EncryptAndPost(t, cx) ==
    LET convObj == cx.objs[t.obj]
        done == [cx EXCEPT !.alive = FALSE]
    IN IF ~ValidBody(t.body) THEN done
       ELSE IF convObj.keys = <<>> THEN done
       ELSE IF account = None THEN [done EXCEPT !.sending = TRUE]
       ELSE LET content == MsgContent(account_key, convObj.keys[1], t.body)
                t1 == [t EXCEPT !.pc = "msgPost", !.room = t.roomId,
                                !.idx = convObj.messageCount,
                                !.content = content]
            IN [cx EXCEPT !.alive = TRUE, !.t = t1, !.sending = TRUE,
                          !.posts = @ \cup {PostRecord(t, "msg", t.roomId,
                                                convObj.messageCount,
                                                convObj.keys[1], convObj,
                                                cx.objs)}]

\* startConv after getRegisteredKey returned entry, up to the 'keys' POST
\* or, for a room that has keys, through to the message POST.
\*   - no entry: startConv returns nothing and sendConvMessage returns;
\*   - no messaging account: ecEncrypt throws on this.account.publicKey.
StartConv(t, entry, cx) ==
    LET roomId == generateRoomId(account_key, t.remote)
        known == convs[roomId] # None
        free == FreeObjs(convs, gets, sends \ {t})
        obj == IF known THEN convs[roomId] ELSE MinOf(free)
        os == IF known THEN cx.objs ELSE [cx.objs EXCEPT ![obj] = TempConvObj]
        convObj == os[obj]
        done == [cx EXCEPT !.alive = FALSE]
        encryptKey == cx.nKeys + 1
        keysContent ==
            KeysContent(account_key,
                <<KeyEntry(account_key, account, encryptKey),
                  KeyEntry(t.remote, entry.address, encryptKey)>>)
    IN IF entry = NoEntry THEN done
       ELSE IF ~known /\ free = {} THEN [done EXCEPT !.ok = FALSE]
       ELSE IF convObj.keys # <<>>
       THEN EncryptAndPost([t EXCEPT !.obj = obj], [cx EXCEPT !.objs = os])
       ELSE IF cx.nKeys >= MaxKeys THEN [done EXCEPT !.ok = FALSE]
       ELSE IF account = None THEN done
       ELSE [cx EXCEPT
               !.alive = TRUE,
               !.objs = os,
               !.nKeys = encryptKey,
               !.t = [t EXCEPT !.pc = "keysPost", !.obj = obj, !.room = roomId,
                               !.idx = convObj.messageCount, !.key = encryptKey,
                               !.content = keysContent],
               !.posts = @ \cup {PostRecord(t, "keys", roomId,
                                     convObj.messageCount, encryptKey, convObj,
                                     os)}]

\* A context in which the flag is already set (what a send must not start
\* from: sendConvMessage sets the flag only before its message POST).
SendContextFlagged(t) ==
    [alive |-> FALSE, ok |-> TRUE, t |-> t, objs |-> objs, nKeys |-> nKeys,
     posts |-> posts, sending |-> TRUE]

SendContext(t) ==
    [alive |-> FALSE, ok |-> TRUE, t |-> t, objs |-> objs, nKeys |-> nKeys,
     posts |-> posts, sending |-> sending]

\* The engine's state after a step of the send t that ended in context cx.
SendResult(t, cx) ==
    LET ss == IF cx.alive THEN (sends \ {t}) \cup {cx.t} ELSE sends \ {t} IN
    /\ cx.ok
    /\ sends' = ss
    /\ objs' = CanonObjs(cx.objs, convs, gets, ss)
    /\ nKeys' = cx.nKeys
    /\ posts' = cx.posts
    /\ sending' = cx.sending

NewSend(remote, body) ==
    [id |-> nSends + 1, acct |-> account_key, remote |-> remote, body |-> body,
     roomId |-> generateRoomId(account_key, remote), pc |-> "lookup",
     obj |-> None, room |-> <<None, None>>, idx |-> Undefined, key |-> None,
     content |-> NoContent, resp |-> 0]

\* sendConvMessage(remote, body), up to its first await on the network: a
\* call made while this._sending_message is set returns at once; a cached
\* registry entry lets startConv go on without a request.
SendCall(remote, body) ==
    /\ account_key # None
    /\ nSends < MaxSends
    /\ nSends' = nSends + 1
    /\ IF sending
       THEN UNCHANGED <<sends, objs, nKeys, posts, sending>>
       ELSE LET t == NewSend(remote, body) IN
            IF registryCache[remote] # NoEntry
            THEN SendResult(t, StartConv(t, registryCache[remote], SendContext(t)))
            ELSE /\ sends' = sends \cup {t}
                 /\ UNCHANGED <<objs, nKeys, posts, sending>>
    /\ UNCHANGED <<account_key, account, convsEnabled, pub_sig, pub_msg, convs,
                   ws, registryCache, storeVars, serverVars, inits, loads, gets,
                   timers, nInits, nLoads, events, lifecycle, lastLive>>
    /\ UNCHANGED limiter

\* getRegisteredKey after its GET: a 200 is cached and returned, any other
\* status returns nothing; status 0 is a fetch that threw (startConv and
\* sendConvMessage reject).
LookupDone(t, status) ==
    /\ t \in sends
    /\ t.pc = "lookup"
    /\ status = 200 => registry[t.remote] # NoEntry
    /\ LET entry == IF status = 200 THEN registry[t.remote] ELSE NoEntry IN
       /\ registryCache' = IF status = 200
                           THEN [registryCache EXCEPT ![t.remote] = entry]
                           ELSE registryCache
       /\ IF status = 0
          THEN SendResult(t, SendContext(t))
          ELSE SendResult(t, StartConv(t, entry, SendContext(t)))
    /\ UNCHANGED <<account_key, account, convsEnabled, pub_sig, pub_msg, convs,
                   ws, storeVars, serverVars, inits, loads, gets, timers,
                   nInits, nLoads, nSends, events, lifecycle, lastLive>>
    /\ UNCHANGED limiter

\* POST /messages/<room>/<index> at the server: the entry is appended and
\* pushed on the live stream when the index is the next one of the log
\* (200), and refused otherwise (409).
ServerPost(t) ==
    /\ t \in sends
    /\ t.pc \in {"keysPost", "msgPost"}
    /\ LET fits == t.idx = Len(log[t.room])
           t1 == [t EXCEPT !.pc = IF t.pc = "keysPost" THEN "keysResp" ELSE "msgResp",
                           !.resp = IF fits THEN 200 ELSE 409]
       IN /\ fits => Len(log[t.room]) < MaxLog
          /\ sends' = (sends \ {t}) \cup {t1}
          /\ log' = IF fits THEN [log EXCEPT ![t.room] = Append(@, t.content)] ELSE log
          /\ feed' = IF fits THEN Append(feed, <<t.room, t.idx>>) ELSE feed
    /\ UNCHANGED <<engineVars, storeVars, registry, socks, inits, loads, gets,
                   timers, countVars, obsVars>>
    /\ UNCHANGED limiter

\* addRoomMsg after the answer to the POST.  For the 'keys' POST startConv
\* adds the key and counts the entry when the answer was 200, and
\* sendConvMessage goes on with createEncrypted and the message POST; for
\* the message POST the flag is cleared and sendConvMessage returns.
PostDone(t) ==
    /\ t \in sends
    /\ t.pc \in {"keysResp", "msgResp"}
    /\ LET result == t.resp = 200
           convObj == objs[t.obj]
           os == IF result
                 THEN [objs EXCEPT ![t.obj] =
                         [convObj EXCEPT !.keys = Append(@, t.key),
                                         !.messageCount = JsInc(@)]]
                 ELSE objs
           cx == [SendContext(t) EXCEPT
                    !.objs = os,
                    !.posts = @ \cup {[PostRecord(t, "keysDone", t.room, t.idx,
                                                  t.key, os[t.obj], os)
                                         EXCEPT !.result = result]}]
       IN IF t.pc = "keysResp"
          THEN SendResult(t, EncryptAndPost(t, cx))
          ELSE SendResult(t, [SendContext(t) EXCEPT !.sending = FALSE])
    /\ UNCHANGED <<account_key, account, convsEnabled, pub_sig, pub_msg, convs,
                   ws, registryCache, storeVars, serverVars, inits, loads, gets,
                   timers, nInits, nLoads, nSends, events, lifecycle, lastLive>>
    /\ UNCHANGED limiter

\* The fetch of a POST throws (no answer reaches the engine, whether or not
\* the server handled the request): addRoomMsg rejects, and so does
\* sendConvMessage, wherever it was.
PostThrow(t) ==
    /\ t \in sends
    /\ t.pc \in {"keysPost", "keysResp", "msgPost", "msgResp"}
    /\ SendResult(t, SendContext(t))
    /\ UNCHANGED <<account_key, account, convsEnabled, pub_sig, pub_msg, convs,
                   ws, registryCache, storeVars, serverVars, inits, loads, gets,
                   timers, nInits, nLoads, nSends, events, lifecycle, lastLive>>
    /\ UNCHANGED limiter

(***************************************************************************)
(* Specifications                                                          *)
(***************************************************************************)
\* The wallets the user of this engine switches between, and the peers.
EngineWallets == {1, 2}
SendBodies == {"hi"}

EnvNext ==
    \/ \E r \in PairRooms : \E w \in getRecipients(r) \ {account_key} :
          \E c \in PeerContents(r, w) : PeerPost(r, c)
    \/ \E i \in SockIds : WsOpen(i)
    \/ \E i \in SockIds : \E code \in {1000, 1006} : WsClose(i, code)

IngestNext ==
    \/ \E i \in SockIds : WsDeliver(i)
    \/ \E g \in gets : GetRoomServe(g)
    \/ \E g \in gets : GetRoomDone(g)
    \/ \E g \in gets : GetRoomFail(g)
    \/ \E t \in loads : FetchConvsServe(t)
    \/ \E t \in loads : FetchConvsFail(t)
    \/ \E t \in loads : \E code \in {1000, 1005} : LoadMyConvsDone(t, code)
    \/ \E i \in SockIds : TimerFire(i)

InitNext ==
    \/ \E k \in EngineWallets : InitCall(k)
    \/ \E t \in inits : \E got \in {registry[t.key], NoEntry} : InitGlobalKey(t, got)
    \/ \E t \in inits : \E signed \in BOOLEAN : InitSign(t, signed)
    \/ \E t \in inits : \E status \in {200, 500, 0} : InitPosted(t, status)
    \/ StartConversing
    \/ \E t \in inits : \E signed \in BOOLEAN : EnableSign(t, signed)
    \/ \E t \in inits : EnableSet(t)

SendNext ==
    \/ \E w \in Wallets \ {account_key} : \E b \in SendBodies : SendCall(w, b)
    \/ \E t \in sends : \E status \in {200, 404, 0} : LookupDone(t, status)
    \/ \E t \in sends : ServerPost(t)
    \/ \E t \in sends : PostDone(t)
    \/ \E t \in sends : PostThrow(t)

Next == EnvNext \/ IngestNext \/ InitNext \/ SendNext

Spec == Init /\ [][Next]_vars

(***************************************************************************)
(* Ingestion: one wallet's engine, its bulk loads and its live stream,     *)
(* with a peer writing to the room the two share.                          *)
(***************************************************************************)
IngestOnlyNext ==
    \/ InitCall(1)
    \/ \E t \in inits : InitGlobalKey(t, registry[t.key])
    \/ \E c \in PeerContents(<<1, 2>>, 2) : PeerPost(<<1, 2>>, c)
    \/ \E i \in SockIds : WsOpen(i)
    \/ \E i \in SockIds : WsDeliver(i)
    \/ \E g \in gets : GetRoomServe(g)
    \/ \E g \in gets : GetRoomDone(g)
    \/ \E t \in loads : FetchConvsServe(t)
    \/ \E t \in loads : \E code \in {1000, 1005} : LoadMyConvsDone(t, code)
    \/ \E i \in SockIds : TimerFire(i)

SpecIngest == Init /\ [][IngestOnlyNext]_vars

\* The 'msg' events emitted so far, in emission order.
MsgEvents == SelectSeq(events, LAMBDA e : e.type = "msg")

\* The last live entry was for a known room that had ingested an entry, and
\* its index was not lastConversationIndex + 1.
LiveOutOfOrder ==
    /\ lastLive.known
    /\ lastLive.last # Undefined
    /\ lastLive.index # lastLive.last + 1

\* C1: for a known room, a live entry whose conversationIndex is not
\* lastConversationIndex + 1 (a gap or a duplicate) is discarded and
\* triggers a bulk reload of the room; handling it emits no 'msg' event.
C1_OutOfOrderReloads ==
    LiveOutOfOrder => (lastLive.reload /\ ~lastLive.emitted)

\* A duplicate live entry has been handled by onMessageUpdate.
C1_DuplicateHandled ==
    LiveOutOfOrder /\ lastLive.index = lastLive.last

\* C5: within one room the 'msg' events are emitted in strictly ascending
\* conversationIndex order, for every interleaving of a bulk load with live
\* entries of the room (one init, the server's stream in index order).
C5_AscendingPerRoom ==
    nInits <= 1 =>
        \A i, j \in 1..Len(MsgEvents) :
            (i < j /\ MsgEvents[i].message.room_id = MsgEvents[j].message.room_id)
                => MsgEvents[i].message.index < MsgEvents[j].message.index

\* Two 'msg' events of one room have been emitted after a single init.
C5_TwoEventsOneRoom ==
    /\ nInits = 1
    /\ \E i, j \in 1..Len(MsgEvents) :
          i < j /\ MsgEvents[i].message.room_id = MsgEvents[j].message.room_id

C7_GapIssuesBulkLoad ==
    (lastLive.known /\ lastLive.last = 0 /\ lastLive.index = 2)
        => lastLive.reload

\* Index 2 has arrived on the live stream for a room that had ingested
\* index 0 only.
C7_GapArrived ==
    lastLive.known /\ lastLive.last = 0 /\ lastLive.index = 2

(***************************************************************************)
(* Sending: the engine of wallet 1, initialised once, sends to wallet 2    *)
(* while wallet 2 writes to the room and the room is loaded and streamed.  *)
(***************************************************************************)
SendOnlyNext ==
    \/ nInits < 1 /\ InitCall(1)
    \/ \E t \in inits : InitGlobalKey(t, registry[t.key])
    \/ \E c \in PeerContents(<<1, 2>>, 2) : PeerPost(<<1, 2>>, c)
    \/ \E i \in SockIds : WsOpen(i)
    \/ \E i \in SockIds : WsDeliver(i)
    \/ \E g \in gets : GetRoomServe(g)
    \/ \E g \in gets : GetRoomDone(g)
    \/ \E t \in loads : FetchConvsServe(t)
    \/ \E t \in loads : LoadMyConvsDone(t, 1005)
    \/ \E b \in SendBodies : SendCall(2, b)
    \/ \E t \in sends : \E status \in {200, 404, 0} : LookupDone(t, status)
    \/ \E t \in sends : ServerPost(t)
    \/ \E t \in sends : PostDone(t)
    \/ \E t \in sends : PostThrow(t)

SpecSend == Init /\ [][SendOnlyNext]_vars

\* C2: at most one sendConvMessage is in flight at any time: a call that
\* starts while an earlier one waits (for the registry lookup, the 'keys'
\* POST or the message POST) is rejected.
C2_OneSendInFlight == Cardinality(sends) <= 1

\* The second call has issued a POST while the first was still in flight.
C2_SecondSendPosted ==
    \E p \in posts : p.send = 2 /\ p.others >= 1 /\ p.type \in {"keys", "msg"}

\* The addresses the entries of a 'keys' envelope are for.
KeysAddressees(content) == {content.keys[j].address : j \in 1..Len(content.keys)}

\* C9: startConv on a keyless room posts one 'keys' envelope at index
\* messageCount with one entry for each participant; once the POST has
\* succeeded this.convs[roomId] (getSharedKeys) holds exactly the key of the
\* envelope; a failed POST adds no key.
C9_KeyAddedToRoom ==
    /\ \A t \in sends : t.pc = "keysPost" =>
          /\ Len(t.content.keys) = 2
          /\ KeysAddressees(t.content) = getRecipients(t.room)
    /\ \A p \in posts : p.type = "keys" => p.index = p.objCount
    /\ \A p \in posts : p.type = "keysDone" =>
          IF p.result THEN p.shared = <<p.key>>
          ELSE p.key \notin Range(p.shared) \cup Range(p.objKeys)

\* A 'keys' POST of startConv has been answered with 200.
C9_KeysPostSucceeded ==
    \E p \in posts : p.type = "keysDone" /\ p.result

\* C10: a message POST is issued only when the room's 'keys' envelope is
\* published, with a room that has a key, under the primary key and at
\* index messageCount; a send whose 'keys' POST failed posts no message.
C10_MsgAfterKeysPublished ==
    /\ \A p \in posts : p.type = "msg" =>
          /\ p.published
          /\ p.objKeys # <<>>
          /\ p.key = p.objKeys[1]
          /\ p.index = p.objCount
    /\ \A p, q \in posts :
          (p.type = "keysDone" /\ ~p.result /\ q.type = "msg") => p.send # q.send

\* A send's 'keys' POST has been refused.
C10_KeysPostFailed ==
    \E p \in posts : p.type = "keysDone" /\ ~p.result

(***************************************************************************)
(* Switching: init(1), then init(2), each with its loads and its stream,   *)
(* while the other participant writes to the room the two wallets share.   *)
(***************************************************************************)
SwitchNext ==
    \/ InitCall(nInits + 1)
    \/ \E t \in inits : InitGlobalKey(t, registry[t.key])
    \/ \E c \in PeerContents(<<1, 2>>, RemoteOf(<<1, 2>>, account_key)) :
          PeerPost(<<1, 2>>, c)
    \/ \E i \in SockIds : WsOpen(i)
    \/ \E i \in SockIds : WsDeliver(i)
    \/ \E g \in gets : GetRoomServe(g)
    \/ \E g \in gets : GetRoomDone(g)
    \/ \E t \in loads : FetchConvsServe(t)
    \/ \E t \in loads : LoadMyConvsDone(t, 1005)
    \/ \E i \in SockIds : TimerFire(i)

SpecSwitch == Init /\ [][SwitchNext]_vars

\* The engine's room state: what this.convs holds for every room id.
RoomState ==
    [r \in Rooms |-> IF convs[r] = None THEN <<>> ELSE <<objs[convs[r]]>>]

\* The step delivers the result of an operation launched under another
\* wallet address than the current one: an answered GET of getRoom, or an
\* answered conversation-list fetch of loadMyConvs.
StaleResultArrives ==
    \/ \E g \in gets : g.acct # account_key /\ g.n # Undefined /\ g \notin gets'
    \/ \E t \in loads : t.acct # account_key /\ t.served /\ t \notin loads'

\* C3: after init(key) has switched the wallet address, the result of an
\* operation launched under the previous address is discarded when it
\* arrives: the room state stays as it is and no 'msg' or 'emsg' event is
\* emitted.
C3_StaleResultsDiscarded ==
    [][StaleResultArrives => (events' = events /\ RoomState' = RoomState)]_vars

\* The answer to a GET of getRoom launched under the previous address is
\* about to be processed.
C3_StaleGetAnswered ==
    \E g \in gets : g.acct # account_key /\ g.n # Undefined /\ g.n > 0

\* No subscription for another wallet address than the current one is open.
NoOldSubscription ==
    \A i \in SockIds :
        socks[i].state \in {"connecting", "open"} => socks[i].acct = account_key

\* The step is onMessageUpdate for an entry of a stream opened for another
\* wallet address than the current one.
OldStreamDelivers ==
    \E i \in SockIds : /\ socks[i].state = "open"
                       /\ socks[i].acct # account_key
                       /\ socks'[i].cursor # socks[i].cursor

\* C4: init(key) resets the room map to empty and cancels the running
\* subscription: once it has run no subscription of the previous address
\* is open, and no entry of the old stream is ingested into the room state.
C4_InitCancelsSubscription ==
    [][/\ nInits' = nInits + 1 =>
            ((\A r \in Rooms : convs'[r] = None) /\ NoOldSubscription')
       /\ OldStreamDelivers => RoomState' = RoomState]_vars

\* init(2) has run while the subscription of wallet 1 was open.
C4_SwitchedWhileSubscribed ==
    /\ account_key = 2
    /\ \E i \in SockIds : socks[i].state = "open" /\ socks[i].acct = 1

(***************************************************************************)
(* Reconnection: the engine of wallet 1, initialised once; its stream can  *)
(* close with code 1000 or 1006 and its conversation-list fetch can fail.  *)
(***************************************************************************)
ReconnectNext ==
    \/ nInits < 1 /\ InitCall(1)
    \/ \E t \in inits : InitGlobalKey(t, registry[t.key])
    \/ \E c \in PeerContents(<<1, 2>>, 2) : PeerPost(<<1, 2>>, c)
    \/ \E i \in SockIds : WsOpen(i)
    \/ \E i \in SockIds : \E code \in {1000, 1006} : WsClose(i, code)
    \/ \E i \in SockIds : WsDeliver(i)
    \/ \E g \in gets : GetRoomServe(g)
    \/ \E g \in gets : GetRoomDone(g)
    \/ \E t \in loads : FetchConvsServe(t)
    \/ \E t \in loads : FetchConvsFail(t)
    \/ \E t \in loads : LoadMyConvsDone(t, 1005)
    \/ \E i \in SockIds : TimerFire(i)

SpecReconnect == Init /\ [][ReconnectNext]_vars

\* The step ends the loadMyConvs call t that the reconnect timer started,
\* with the wallet address still the one it was started under.
ReconnectEnds(t) ==
    /\ t \in loads
    /\ t.why = "reconnect"
    /\ t.acct = account_key
    /\ \A u \in loads' : u.id # t.id

\* this.ws is a subscription just opened for the current wallet address.
Subscribed ==
    ws # None /\ socks[ws].state = "connecting" /\ socks[ws].acct = account_key

\* C8: after a close with a code other than 1000 the timer refetches the
\* conversation list and the engine re-subscribes, also when the fetch
\* fails: when the timer's loadMyConvs ends, a new subscription is open;
\* and a close with code 1000 arms no timer and starts no load.
C8_ReconnectResubscribes ==
    [][/\ \A t \in loads : ReconnectEnds(t) => Subscribed'
       /\ \A i \in SockIds :
             WsClose(i, NORMAL_CLOSE) => (timers' = timers /\ loads' = loads)]_vars

\* The reconnect timer has started a loadMyConvs.
C8_ReconnectLoading ==
    \E t \in loads : t.why = "reconnect" /\ t.acct = account_key

(***************************************************************************)
(* Delivery between two engines.  The sender's side is the engine of the   *)
(* model; the receiver's side is the ingestion code (getRoom's forEach,    *)
(* which onMessageUpdate repeats entry by entry) run by the other          *)
(* participant over the log the server holds.                              *)
(***************************************************************************)
\* What the participant B of room r emits on ingesting entries 0 and 1 of
\* the room's log, starting from a fresh conversation object.
ReceiverEvents(r, B) == IngestAll(log[r], 1, 2, NewConvObj, r, B, B).ev

\* Room r's log starts with a 'keys' envelope and a 'msg' envelope under
\* the announced key, both from A.
KeysThenMsgFrom(r, A) ==
    /\ Len(log[r]) >= 2
    /\ log[r][1].type = "keys" /\ log[r][1].address = A
    /\ log[r][2].type = "msg" /\ log[r][2].address = A
    /\ log[r][2].emsg.k \in AnnouncedKeys(<<log[r][1]>>)

UnregisteredNext ==
    \/ nInits < 1 /\ InitCall(1)
    \/ \E t \in inits : InitGlobalKey(t, registry[t.key])
    \/ \E c \in PeerContents(<<1, 2>>, 2) : PeerPost(<<1, 2>>, c)
    \/ \E i \in SockIds : WsOpen(i)
    \/ \E i \in SockIds : WsDeliver(i)
    \/ \E g \in gets : GetRoomServe(g)
    \/ \E g \in gets : GetRoomDone(g)
    \/ \E t \in loads : FetchConvsServe(t)
    \/ \E t \in loads : LoadMyConvsDone(t, 1005)
    \/ \E w \in {2, 3} : \E b \in SendBodies : SendCall(w, b)
    \/ \E t \in sends : LookupDone(t, IF t.remote = 3 THEN 404 ELSE 200)
    \/ \E t \in sends : ServerPost(t)
    \/ \E t \in sends : PostDone(t)

SpecUnregistered == Init /\ [][UnregisteredNext]_vars

\* C12: a send to a wallet whose registry lookup is answered non-200
\* returns without issuing a POST, emits no event and leaves the room map
\* and the send flag as they were.
C12_UnregisteredSendIsNoOp ==
    [][\A t \in sends : LookupDone(t, 404) =>
          /\ posts' = posts
          /\ \A u \in sends' : u.id # t.id
          /\ events' = events /\ lifecycle' = lifecycle
          /\ convs' = convs /\ RoomState' = RoomState
          /\ sending' = sending]_vars

\* A send to wallet 3 has returned after its lookup was answered 404 (no
\* send is in flight, none has posted and no lookup has been cached).
C12_UnregisteredSendReturned ==
    /\ nSends >= 1
    /\ sends = {}
    /\ posts = {}
    /\ \A w \in Wallets : registryCache[w] = NoEntry

(***************************************************************************)
(* Keys envelopes not meant for the engine: wallet 2 posts 'keys'          *)
(* envelopes to room 1-2 whose first entry is addressed to wallet 1 or to  *)
(* wallet 3 and wrapped for the messaging key of wallet 1 or of wallet 3,  *)
(* and messages under the keys announced; the engine of wallet 1 loads     *)
(* and streams the room.                                                   *)
(***************************************************************************)
ForeignKeysContents(roomId, sender) ==
    IF nKeys < MaxKeys
    THEN {KeysContent(sender,
            <<KeyEntry(a, p, nKeys + 1),
              KeyEntry(sender, registry[sender].address, nKeys + 1)>>) :
          a \in {1, 3}, p \in {1, 3}}
    ELSE {}

KeysNext ==
    \/ nInits < 1 /\ InitCall(1)
    \/ \E t \in inits : InitGlobalKey(t, registry[t.key])
    \/ \E c \in ForeignKeysContents(<<1, 2>>, 2) : PeerPost(<<1, 2>>, c)
    \/ \E k \in AnnouncedKeys(log[<<1, 2>>]) :
          PeerPost(<<1, 2>>, MsgContent(2, k, "hi"))
    \/ \E i \in SockIds : WsOpen(i)
    \/ \E i \in SockIds : WsDeliver(i)
    \/ \E g \in gets : GetRoomServe(g)
    \/ \E g \in gets : GetRoomDone(g)
    \/ \E t \in loads : FetchConvsServe(t)
    \/ \E t \in loads : LoadMyConvsDone(t, 1005)

SpecKeys == Init /\ [][KeysNext]_vars

\* The keys a 'keys' envelope carries in entries addressed to the wallet
\* address me and wrapped for the messaging account acct.
KeysMeantFor(content, me, acct) ==
    {content.keys[j].ekey.key :
        j \in {x \in 1..Len(content.keys) :
                 /\ content.keys[x].address = me
                 /\ acct # None
                 /\ content.keys[x].ekey.pub = acct}}

\* The 'keys' envelopes of a room's log.
KeysEnvelopes(r) == {log[r][i] : i \in {x \in 1..Len(log[r]) : log[r][x].type = "keys"}}

\* No entry of the envelope is addressed to the wallet address me.
AddressedToOthers(content, me) ==
    \A j \in 1..Len(content.keys) : content.keys[j].address # me

\* C13: processing a 'keys' envelope none of whose entries is addressed to
\* the engine's wallet address leaves the room's key list as it was; an
\* entry whose unwrap fails adds no key (and processKeys completes); so a
\* room holds no key but those addressed to and wrapped for the engine.
C13_ForeignKeysIgnored ==
    /\ \A r \in PairRooms : \A c \in KeysEnvelopes(r) : \A o \in ObjIds :
          LET before == objs[o].keys
              after == processKeys(c.keys, before, account_key, account)
          IN /\ AddressedToOthers(c, account_key) => after = before
             /\ Len(after) >= Len(before)
             /\ SubSeq(after, 1, Len(before)) = before
             /\ Range(after) \ Range(before) \subseteq
                    KeysMeantFor(c, account_key, account)
    /\ \A r \in PairRooms : convs[r] # None =>
          Range(objs[convs[r]].keys) \subseteq
              UNION {KeysMeantFor(c, account_key, account) : c \in KeysEnvelopes(r)}

\* The engine has ingested an envelope addressed to others only and one
\* whose entry for the engine does not unwrap, and the room has no key.
C13_ForeignKeysIngested ==
    /\ convs[<<1, 2>>] # None
    /\ objs[convs[<<1, 2>>]].lastConversationIndex = 1
    /\ objs[convs[<<1, 2>>]].keys = <<>>
    /\ Len(log[<<1, 2>>]) = 2
    /\ \E c \in KeysEnvelopes(<<1, 2>>) : AddressedToOthers(c, 1)
    /\ \E c \in KeysEnvelopes(<<1, 2>>) :
          ~AddressedToOthers(c, 1) /\ KeysMeantFor(c, 1, 1) = {}

(***************************************************************************)
(* Routing of 'msg' envelopes: in room 1-2 wallet 2 announces keys the     *)
(* engine of wallet 1 can unwrap and posts messages whose plaintext is a   *)
(* valid message, not JSON, or JSON that fails the schema; in room 1-3     *)
(* wallet 3 announces a key wrapped for itself and for wallet 2 and posts   *)
(* a message under it.                                                     *)
(***************************************************************************)
OthersKeyContents(sender) ==
    IF nKeys < MaxKeys
    THEN {KeysContent(sender,
            <<KeyEntry(sender, registry[sender].address, nKeys + 1),
              KeyEntry(2, registry[2].address, nKeys + 1)>>)}
    ELSE {}

RoutingNext ==
    \/ nInits < 1 /\ InitCall(1)
    \/ \E t \in inits : InitGlobalKey(t, registry[t.key])
    \/ \E c \in PeerContents(<<1, 2>>, 2) : PeerPost(<<1, 2>>, c)
    \/ \E k \in AnnouncedKeys(log[<<1, 2>>]) : \E b \in Bodies \ {"hi"} :
          PeerPost(<<1, 2>>, MsgContent(2, k, b))
    \/ \E c \in OthersKeyContents(3) : log[<<1, 3>>] = <<>> /\ PeerPost(<<1, 3>>, c)
    \/ \E k \in AnnouncedKeys(log[<<1, 3>>]) :
          Len(log[<<1, 3>>]) < 2 /\ PeerPost(<<1, 3>>, MsgContent(3, k, "hi"))
    \/ \E i \in SockIds : WsOpen(i)
    \/ \E i \in SockIds : WsDeliver(i)
    \/ \E g \in gets : GetRoomServe(g)
    \/ \E g \in gets : GetRoomDone(g)
    \/ \E t \in loads : FetchConvsServe(t)
    \/ \E t \in loads : LoadMyConvsDone(t, 1005)

SpecRouting == Init /\ [][RoutingNext]_vars

\* The 'msg' envelopes of the server logs, as (room, conversationIndex).
MsgEntries ==
    {<<r, i - 1>> : r \in PairRooms, i \in 1..MaxLog} \cap
    {x \in PairRooms \X (0..MaxLog) :
        x[2] < Len(log[x[1]]) /\ log[x[1]][x[2] + 1].type = "msg"}

\* The plaintext is a message: it parses and passes the schema.
WellFormed(emsg) == emsg.body \in Bodies \ {"notjson", "badschema"}

\* C14: a 'msg' envelope no key of the room decrypts is emitted as 'emsg'
\* and not as 'msg'; one a key decrypts to a payload that fails parsing or
\* the schema emits nothing and stores nothing; one a key decrypts to a
\* valid payload is emitted as 'msg' and stored.  So every 'msg' event and
\* every stored message carries a valid decrypted payload, and every
\* 'emsg' event the still-encrypted payload of its envelope.
C14_MsgRouting ==
    /\ \A x \in MsgEntries : \A o \in ObjIds :
          LET c == log[x[1]][x[2] + 1]
              res == processContent(c, objs[o], x[1], x[2], account_key, account)
              decrypts == c.emsg.k \in Range(objs[o].keys)
          IN /\ ~decrypts =>
                   /\ res.obj = objs[o]
                   /\ Len(res.ev) = 1
                   /\ res.ev[1].type = "emsg"
                   /\ res.ev[1].message.msg = c.emsg
             /\ (decrypts /\ ~WellFormed(c.emsg)) =>
                   res.obj = objs[o] /\ res.ev = <<>>
             /\ (decrypts /\ WellFormed(c.emsg)) =>
                   /\ Len(res.ev) = 1
                   /\ res.ev[1].type = "msg"
                   /\ res.ev[1].message.msg = [k |-> None, body |-> c.emsg.body]
                   /\ res.obj = [objs[o] EXCEPT
                                   !.messages = Append(@, res.ev[1].message)]
    /\ \A n \in 1..Len(events) :
          LET e == events[n]
              x == <<e.message.room_id, e.message.index>>
          IN /\ e.type \in {"msg", "emsg"}
             /\ x \in MsgEntries
             /\ LET c == log[x[1]][x[2] + 1] IN
                /\ e.type = "msg" =>
                      /\ WellFormed(c.emsg)
                      /\ e.message.msg = [k |-> None, body |-> c.emsg.body]
                /\ e.type = "emsg" => e.message.msg = c.emsg
    /\ \A r \in PairRooms : convs[r] # None =>
          \A n \in 1..Len(objs[convs[r]].messages) :
             LET m == objs[convs[r]].messages[n] IN
             /\ <<r, m.index>> \in MsgEntries
             /\ WellFormed(log[r][m.index + 1].emsg)

\* All three cases have happened: room 1-3's message came out as 'emsg',
\* room 1-2's log of a key, an invalid and a valid message is ingested,
\* and the only other event is the 'msg' of the valid one.
C14_AllThreeRouted ==
    /\ Len(log[<<1, 2>>]) = 3
    /\ log[<<1, 2>>][2].type = "msg" /\ ~WellFormed(log[<<1, 2>>][2].emsg)
    /\ log[<<1, 2>>][3].type = "msg" /\ WellFormed(log[<<1, 2>>][3].emsg)
    /\ convs[<<1, 2>>] # None
    /\ objs[convs[<<1, 2>>]].lastConversationIndex = 2
    /\ Len(objs[convs[<<1, 2>>]].messages) = 1
    /\ \E n \in 1..Len(events) :
          events[n].type = "emsg" /\ events[n].message.room_id = <<1, 3>>
    /\ \E n \in 1..Len(events) :
          /\ events[n].type = "msg"
          /\ events[n].message.room_id = <<1, 2>>
          /\ events[n].message.index = 2
    /\ \A n \in 1..Len(events) :
          events[n].message.room_id = <<1, 2>> => events[n].message.index = 2

\* The message POST p was refused: its send is over and the log entry at
\* its index is another sender's.
Refused(p) ==
    /\ p.type = "msg"
    /\ \A t \in sends : t.id # p.send
    /\ p.index \in 0..(Len(log[p.room]) - 1)
    /\ log[p.room][p.index + 1].address # account_key

\* C15: a message POST answered 409 ends the send normally (the task is
\* gone, nothing is raised), leaves every room's keys, messages,
\* messageCount and lastConversationIndex as they were, emits nothing and
\* clears the send flag; every message POST goes out at the room's
\* messageCount of that moment, so a send retried after the ingestor has
\* advanced the count posts at a higher index than the refused one.
C15_ConflictIsRecoverable ==
    /\ [](\A p \in posts : p.type = "msg" => p.index = p.objCount)
    /\ [](\A p, q \in posts :
            (Refused(p) /\ q.type = "msg" /\ q.room = p.room
               /\ q.send > p.send /\ q.objCount > p.objCount)
            => q.index > p.index)
    /\ [][\A t \in sends :
            (t.pc = "msgResp" /\ t.resp # 200 /\ PostDone(t)) =>
               /\ \A u \in sends' : u.id # t.id
               /\ RoomState' = RoomState
               /\ events' = events
               /\ posts' = posts
               /\ sending' = FALSE]_vars

\* A send was refused at index 1, the ingestor took the peer's entry in,
\* and the retry is on its way at index 2.
C15_RetriedAtHigherIndex ==
    \E p, q \in posts :
        /\ Refused(p) /\ p.index = 1
        /\ q.type = "msg" /\ q.room = p.room /\ q.send > p.send
        /\ q.index = 2
        /\ \E t \in sends : t.id = q.send /\ t.pc = "msgPost" /\ t.idx = 2

(***************************************************************************)
(* Identity: the engine is initialised for wallet 1 or 2 (messaging key    *)
(* and publication in the secret store) or wallet 3 (nothing stored), the  *)
(* user enables messaging, the wallet signs or refuses, and the registry   *)
(* answers, fails or is out of reach.                                      *)
(***************************************************************************)
IdentityNext ==
    \/ \E k \in Wallets : InitCall(k)
    \/ StartConversing
    \/ \E t \in inits : \E signed \in BOOLEAN : EnableSign(t, signed)
    \/ \E t \in inits : EnableSet(t)
    \/ \E t \in inits : \E got \in {registry[t.key], NoEntry} : InitGlobalKey(t, got)
    \/ \E t \in inits : \E signed \in BOOLEAN : InitSign(t, signed)
    \/ \E t \in inits : \E status \in {200, 500, 0} : InitPosted(t, status)
    \/ \E t \in loads : FetchConvsServe(t)
    \/ \E t \in loads : LoadMyConvsDone(t, 1005)

\* A registry entry of wallet w for another messaging key than the one
\* this client derives (published by a client that signs with the other of
\* web3.eth.personal and web3.eth).
OtherEntry(w) ==
    [address |-> w + Cardinality(Wallets), sig |-> w + Cardinality(Wallets),
     msg |-> w + Cardinality(Wallets)]

\* Wallet 1 is published with the key this client derives, wallet 2 with
\* another key, wallet 3 not at all.
InitIdentity ==
    InitWith([w \in Wallets |-> IF w = 1 THEN OwnEntry(1)
                                ELSE IF w = 2 THEN OtherEntry(2) ELSE NoEntry])

SpecIdentity == InitIdentity /\ [][IdentityNext]_vars

\* The registry POSTs in flight.
RegistryPosts == {t \in inits : t.pc \in {"postRegistry", "postDetached"}}

\* C16: when the wallet refuses the signature of promptToEnable or of
\* promptForSignature, the call ends (the rejection goes up to the caller)
\* with account, the stored messaging key, the stored publication, pub_msg
\* and pub_sig as they were when the prompt was called, and without a
\* registry POST.
C16_RefusalKeepsIdentity ==
    [][\A t \in inits :
         /\ (t.pc = "enable" /\ EnableSign(t, FALSE)) =>
               /\ \A u \in inits' : u.id # t.id
               /\ <<account, pub_sig, pub_msg, storeMK, storePub>>' =
                      <<account, pub_sig, pub_msg, storeMK, storePub>>
               /\ RegistryPosts' = RegistryPosts
               /\ registry' = registry
         /\ (t.pc = "sign" /\ InitSign(t, FALSE)) =>
               /\ \A u \in inits' : u.id # t.id
               /\ <<account, storeMK, storePub>>' = <<account, storeMK, storePub>>
               /\ pub_sig' = t.body.sig
               /\ pub_msg' = t.body.msg
               /\ RegistryPosts' = RegistryPosts
               /\ registry' = registry]_vars

\* The wallet refused the publication signature and the engine is left
\* with the phrase it was going to have signed and no signature.
C16_RefusedPublication ==
    /\ inits = {}
    /\ account # None
    /\ pub_sig = None
    /\ pub_msg # None

\* 'ready' has been emitted for wallet address w.
ReadyEmitted(w) == \E n \in 1..Len(lifecycle) : lifecycle[n] = <<"ready", w>>

\* The registry holds wallet w's entry for the messaging key derived here.
Published(w) == storeMK[w] # None /\ registry[w].address = storeMK[w]

\* C17: 'ready' is emitted only from Published: whenever 'ready' has been
\* emitted for a wallet address the registry holds that address's entry
\* with the messaging address derived locally; and a registry POST that
\* fails (any status but 200) or gets no answer emits no 'ready'.
C17_ReadyOnlyFromPublished ==
    /\ [](\A w \in Wallets : ReadyEmitted(w) => Published(w))
    /\ [][\A t \in RegistryPosts : \A status \in {500, 0} :
            InitPosted(t, status) => lifecycle' = lifecycle]_vars

\* 'ready' was emitted for wallet 2 although its registry POST was
\* answered 500 and the registry still has the other key.
C17_ReadyWithoutPublication ==
    /\ ReadyEmitted(2)
    /\ ~Published(2)
    /\ inits = {}

\* The registry holds an entry of the wallet address of the GET whose
\* messaging address is the engine's.
RegistryMatches(t) == account # None /\ registry[t.key].address = account

\* The step issues a registry POST of the engine's own entry.
PostsOwnEntry ==
    \E u \in RegistryPosts' \ RegistryPosts :
        u.body = [address |-> account', sig |-> pub_sig', msg |-> pub_msg']

\* C18: initMessaging, once the registry GET is over: when the registry
\* holds a matching entry the engine ends with the entry's pub_sig and
\* pub_msg and neither prompts nor POSTs; in every other case it POSTs its
\* own entry, at once or when the wallet has answered the prompt.
C18_Reconciliation ==
    [][/\ \A t \in inits : \A got \in {registry[t.key], NoEntry} :
            (t.pc = "getGlobalKey" /\ InitGlobalKey(t, got)) =>
               IF RegistryMatches(t)
               THEN /\ pub_sig' = registry[t.key].sig
                    /\ pub_msg' = registry[t.key].msg
                    /\ RegistryPosts' = RegistryPosts
                    /\ \A u \in inits' : u.pc # "sign"
               ELSE PostsOwnEntry \/ \E u \in inits' : u.id = t.id /\ u.pc = "sign"
       /\ \A t \in inits : \A signed \in BOOLEAN :
            (t.pc = "sign" /\ InitSign(t, signed)) => PostsOwnEntry]_vars

(***************************************************************************)
(* Registry lookups: the engine of wallet 1 sends to wallet 2 (published)  *)
(* and to wallet 3 (answered 404, as is any lookup the server refuses),    *)
(* two sends at a time, while wallet 2 publishes another messaging key.    *)
(***************************************************************************)
\* Wallet w publishes another messaging key on the key server.
PeerRepublishes(w) ==
    /\ registry[w] = OwnEntry(w)
    /\ registry' = [registry EXCEPT ![w] = OtherEntry(w)]
    /\ UNCHANGED <<engineVars, storeVars, log, feed, socks, taskVars,
                   countVars, obsVars>>
    /\ UNCHANGED limiter

LookupNext ==
    \/ nInits < 1 /\ InitCall(1)
    \/ \E t \in inits : InitGlobalKey(t, registry[t.key])
    \/ PeerRepublishes(2)
    \/ \E i \in SockIds : WsOpen(i)
    \/ \E i \in SockIds : WsDeliver(i)
    \/ \E g \in gets : GetRoomServe(g)
    \/ \E g \in gets : GetRoomDone(g)
    \/ \E t \in loads : FetchConvsServe(t)
    \/ \E t \in loads : LoadMyConvsDone(t, 1005)
    \/ \E w \in {2, 3} : \E b \in SendBodies : SendCall(w, b)
    \/ \E t \in sends : \E status \in {200, 404} :
          (t.remote = 3 => status = 404) /\ LookupDone(t, status)
    \/ \E t \in sends : ServerPost(t)
    \/ \E t \in sends : PostDone(t)

SpecLookup == Init /\ [][LookupNext]_vars

\* The lookups of getRegisteredKey waiting for the server's answer.
Lookups == {t \in sends : t.pc = "lookup"}

\* C20: a lookup answered 200 caches the entry, and from then on every
\* lookup of the address is served that same entry without a request to
\* the server (the cached entry never changes; a call that finds it starts
\* no lookup and wraps its key for the cached messaging address); a lookup
\* answered otherwise returns nothing (the send ends without a POST) and
\* caches nothing, so the next call for the address asks the server again.
C20_LookupCache ==
    /\ [][\A w \in Wallets : registryCache[w] # NoEntry =>
              registryCache'[w] = registryCache[w]]_vars
    /\ [][\A t \in Lookups :
            /\ LookupDone(t, 200) => registryCache'[t.remote] = registry[t.remote]
            /\ LookupDone(t, 404) =>
                  /\ registryCache' = registryCache
                  /\ posts' = posts
                  /\ \A u \in sends' : u.id # t.id]_vars
    /\ [][\A w \in {2, 3} : \A b \in SendBodies :
            (SendCall(w, b) /\ ~sending) =>
               IF registryCache[w] # NoEntry
               THEN /\ Lookups' = Lookups
                    /\ \A u \in sends' \ sends :
                          u.pc = "keysPost" =>
                             u.content.keys[2].ekey.pub = registryCache[w].address
               ELSE \E u \in Lookups' \ Lookups : u.remote = w]_vars

\* A lookup that was in flight when another was answered has replaced the
\* cached entry of wallet 2 by the one published since.
C20_CacheReplaced ==
    /\ registryCache[2] = OtherEntry(2)
    /\ \E p \in posts : p.type = "keys" /\ p.room = <<1, 2>>
    /\ \E t \in sends : t.pc = "keysPost" /\ t.content.keys[2].ekey.pub = 2

(***************************************************************************)
(* The limiter.  getRoom issues its GET inside limiter.schedule; the       *)
(* limiter is the module's one Bottleneck with maxConcurrent 25: a         *)
(* scheduled job waits in the limiter's queue and is started when fewer    *)
(* than maxConcurrent jobs run; a job runs until its fetch and res.json()  *)
(* have resolved or rejected.  In the specifications above at most         *)
(* MaxObjs bulk loads exist at a time, fewer than maxConcurrent, so the    *)
(* limiter starts each at once and is left out there.  Here the bulk       *)
(* loads of a user with many conversations are counted, the rooms not      *)
(* told apart and their objects left out.                                  *)
(***************************************************************************)
maxConcurrent == 25

MaxBulk == 28

\* A limiter that starts a waiting job whatever the number running (what
\* the limiter must not do).
LimiterStartUncapped ==
    /\ limiter.queued > 0
    /\ limiter' = [limiter EXCEPT !.running = @ + 1, !.queued = @ - 1]
    /\ UNCHANGED <<engineVars, storeVars, serverVars, taskVars, countVars,
                   obsVars>>

\* getRoom(roomId) up to limiter.schedule: the job joins the queue (one
\* of the MaxBulk bulk loads of the run).
GetRoomScheduled ==
    /\ ReadyEmitted(account_key)
    /\ limiter.running + limiter.queued + limiter.ended < MaxBulk
    /\ limiter' = [limiter EXCEPT !.queued = @ + 1]
    /\ UNCHANGED <<engineVars, storeVars, serverVars, taskVars, countVars,
                   obsVars>>

\* The limiter starts a waiting job: its GET /messages/<roomId> is issued.
LimiterStart ==
    /\ limiter.queued > 0
    /\ limiter.running < maxConcurrent
    /\ limiter' = [limiter EXCEPT !.running = @ + 1, !.queued = @ - 1]
    /\ UNCHANGED <<engineVars, storeVars, serverVars, taskVars, countVars,
                   obsVars>>

\* A running job ends: the fetch and res.json() resolved, or one rejected.
BulkFetchEnds ==
    /\ limiter.running > 0
    /\ limiter' = [limiter EXCEPT !.running = @ - 1, !.ended = @ + 1]
    /\ UNCHANGED <<engineVars, storeVars, serverVars, taskVars, countVars,
                   obsVars>>

LimiterNext ==
    \/ nInits < 1 /\ InitCall(1)
    \/ \E t \in inits : InitGlobalKey(t, registry[t.key])
    \/ GetRoomScheduled
    \/ LimiterStart
    \/ BulkFetchEnds

\* The limiter drains its queue by itself (weak fairness of its start
\* step); nothing is assumed about the server answering.
SpecLimiter == Init /\ [][LimiterNext]_vars /\ WF_vars(LimiterStart)

\* C19: never more than 25 bulk fetches are in flight; a fetch scheduled
\* while 25 are stays in the queue (no fetch is issued while 25 run); and
\* waiting fetches are issued as soon as fewer than 25 run: whenever
\* fetches wait, eventually none waits or 25 run.
C19_AtMost25InFlight ==
    /\ [](limiter.running <= maxConcurrent)
    /\ [][limiter.running = maxConcurrent =>
             limiter.running' <= limiter.running]_vars
    /\ (limiter.queued > 0) ~> (limiter.queued = 0 \/ limiter.running = maxConcurrent)

\* 25 bulk fetches are in flight and further ones wait.
C19_CapReachedAndQueued ==
    /\ limiter.running = maxConcurrent
    /\ limiter.queued > 0

\* C21: handling a live entry for a known room never moves the room's
\* indices backwards: after every onMessageUpdate that processes the entry
\* in place, lastConversationIndex and messageCount are at least what they
\* were before it.
C21_LiveIndicesMonotone ==
    [][\A i \in SockIds :
         (WsDeliver(i) /\ lastLive'.known /\ ~lastLive'.reload) =>
            LET o == convs[lastLive'.room] IN
            /\ objs'[o].lastConversationIndex >= objs[o].lastConversationIndex
            /\ objs'[o].messageCount >= objs[o].messageCount]_vars

\* A live entry with a lower index than the room's last one was processed
\* in place and the room now stands at that lower index.
C21_MovedBackwards ==
    /\ lastLive.known /\ ~lastLive.reload
    /\ lastLive.last # Undefined
    /\ lastLive.index < lastLive.last
    /\ convs[lastLive.room] # None
    /\ objs[convs[lastLive.room]].lastConversationIndex = lastLive.index
    /\ objs[convs[lastLive.room]].messageCount = lastLive.index + 1

\* The rooms this.convs holds that have ingested at least one log entry.
IngestedRooms ==
    {r \in Rooms : convs[r] # None
                   /\ objs[convs[r]].lastConversationIndex # Undefined}

\* C22: in every state, a room that has ingested at least one log entry
\* has messageCount = lastConversationIndex + 1, the highest index seen
\* plus one.
C22_CountIsLastPlusOne ==
    \A r \in IngestedRooms :
        objs[convs[r]].messageCount = objs[convs[r]].lastConversationIndex + 1

\* startConv has counted its own 'keys' entry after the live stream had
\* counted it already: the room's count is past the length of the server
\* log and two past the last index.
C22_CountedTwice ==
    \E r \in IngestedRooms :
        /\ objs[convs[r]].lastConversationIndex = Len(log[r]) - 1
        /\ objs[convs[r]].messageCount = Len(log[r]) + 1

\* The sequence s holds no value twice.
NoDuplicates(s) == \A i, j \in 1..Len(s) : s[i] = s[j] => i = j

\* C23: no room's key list holds a key twice, and keys stay in insertion
\* order: as long as this.convs holds the same object for a room, the key
\* list only grows at its end, so the first key inserted stays the first.
C23_KeysDeduplicated ==
    /\ [](\A r \in Rooms : convs[r] # None => NoDuplicates(objs[convs[r]].keys))
    /\ [][\A r \in Rooms :
            (convs[r] # None /\ convs'[r] = convs[r] /\ gets' \subseteq gets) =>
               LET old == objs[convs[r]].keys
                   new == objs'[convs[r]].keys
               IN Len(new) >= Len(old) /\ SubSeq(new, 1, Len(old)) = old]_vars

\* startConv has pushed the key of its 'keys' entry on a room whose list
\* held it already from the live stream.
C23_KeyPushedTwice ==
    \E r \in Rooms :
        /\ convs[r] # None
        /\ \E i, j \in 1..Len(objs[convs[r]].keys) :
              i < j /\ objs[convs[r]].keys[i] = objs[convs[r]].keys[j]
        /\ \E p \in posts : p.type = "keysDone" /\ p.result /\ p.room = r

(***************************************************************************)
(* A bulk load racing with the live stream.                                *)
(***************************************************************************)
\* Nothing of the ingestion is in flight: no init, no conversation list and
\* no bulk load awaits an answer, and no open socket has an entry left to
\* deliver.
Quiescent ==
    /\ inits = {} /\ loads = {} /\ gets = {}
    /\ \A i \in SockIds : socks[i].state = "open" => Pending(socks[i]) = {}

\* The rooms the engine holds whose last log entry was the last one
\* delivered on the live stream.
LastEntryDeliveredLive ==
    {r \in Rooms : /\ convs[r] # None
                   /\ log[r] # <<>>
                   /\ lastLive.room = r
                   /\ lastLive.index = Len(log[r]) - 1}

\* The room's log ingested from its first entry to its last, in order, into
\* a fresh conversation object: its messages are the decryptable entries.
InOrderIngest(r) ==
    IngestAll(log[r], 1, Len(log[r]), NewConvObj, r, account_key, account).obj

\* C24: an entry delivered on the live stream while a bulk load of its room
\* is in flight is not lost and does not move the room backwards: once the
\* load has completed and nothing more arrives, lastConversationIndex is the
\* index of the last entry of the server log and every decryptable entry of
\* the log is in the room's message list.
C24_LiveDuringBulkLoad ==
    Quiescent =>
        \A r \in LastEntryDeliveredLive :
            /\ objs[convs[r]].lastConversationIndex = Len(log[r]) - 1
            /\ Range(InOrderIngest(r).messages) \subseteq Range(objs[convs[r]].messages)

\* The load was answered before the entry was appended and ran its forEach
\* after the entry had been handled in place: the room is left behind the
\* log's last entry.
C24_LeftBehind ==
    /\ Quiescent
    /\ \E r \in LastEntryDeliveredLive :
          /\ lastLive.known /\ ~lastLive.reload
          /\ objs[convs[r]].lastConversationIndex # Undefined
          /\ objs[convs[r]].lastConversationIndex < Len(log[r]) - 1

(***************************************************************************)
(* The send flag.                                                          *)
(***************************************************************************)
\* C25: the send flag is always released: once every sendConvMessage call
\* has ended, whether its message POST returned 200, returned another status
\* or its request threw, this._sending_message is false, so that a later
\* send is not rejected because of a send that has finished.
C25_FlagReleased == sends = {} => ~sending

\* A message POST was issued, no sendConvMessage call is left in flight, and
\* the flag is still set.
C25_FlagLeftSet ==
    /\ sends = {}
    /\ sending
    /\ \E p \in posts : p.type = "msg"

====
